---- MODULE Spec2Model ----
(***************************************************************************)
(* Model of src/rag.py: a Streamlit page with two buttons.                 *)
(*   "Store Vector": get_documents(); get_vector_store(docs); st.success   *)
(*   "Send":         FAISS.load_local("faiss_index"); get_llm();           *)
(*                   st.write(get_response_llm(llm, index, question))      *)
(* Every browser session runs main() in a thread of its own, all against   *)
(* the same "faiss_index" folder, which holds the two files index.faiss    *)
(* (the vectors) and index.pkl (the docstore with the chunk texts).        *)
(***************************************************************************)
EXTENDS Integers, Sequences, FiniteSets, TLC

\* ---------------------------------------------------------------- bounds
NumSessions == 2      \* concurrent script runs (browser sessions)
MaxChunks == 4        \* most chunks get_documents() returns
EmbedDim == 2         \* length of the vectors bedrock_embeddings returns
NumQueries == 2       \* distinct questions typed into the text input

Sessions == 1..NumSessions

\* search_kwargs={"k": 3}
K == 3

\* ------------------------------------------------------------ text, vectors
\* page_content of the i-th chunk of the "data" directory
ChunkText(i) == "c" \o ToString(i)
QueryText(i) == "q" \o ToString(i)
Queries == {QueryText(i) : i \in 1..NumQueries}

\* get_documents(): the chunks of whatever PDFs "data" holds at the time;
\* an empty or missing directory gives the empty list
Corpus(n) == [i \in 1..n |-> ChunkText(i)]
Corpora == {Corpus(n) : n \in 0..MaxChunks}

\* bedrock_embeddings: a fixed map from text to a vector of EmbedDim numbers
ChunkNo(t) == CHOOSE i \in 1..MaxChunks : ChunkText(i) = t
QueryNo(t) == CHOOSE i \in 1..NumQueries : QueryText(i) = t
EmbeddingTable ==
    [t \in Queries \cup {ChunkText(i) : i \in 1..MaxChunks} |->
        IF t \in Queries
        THEN [d \in 1..EmbedDim |-> (QueryNo(t) * (d + 1)) % 5]
        ELSE [d \in 1..EmbedDim |-> (ChunkNo(t) * (d + 2)) % 7]]
Embedding(t) == EmbeddingTable[t]

\* an index folder left by an embedding model of another dimension
LegacyDim == EmbedDim + 1
LegacyVectors(n) == [i \in 1..n |-> [d \in 1..LegacyDim |-> (i + d) % 3]]

RECURSIVE SumSq(_, _, _)
SumSq(u, v, d) ==
    IF d = 0 THEN 0 ELSE (u[d] - v[d]) * (u[d] - v[d]) + SumSq(u, v, d - 1)

\* IndexFlatL2 metric: squared L2 distance, smaller is more similar
Distance(u, v) == SumSq(u, v, Len(u))

Min(a, b) == IF a < b THEN a ELSE b

\* ------------------------------------------------------------------ files
NoFile == [st |-> "none", data |-> <<>>]
PartialFile == [st |-> "partial", data |-> <<>>]
FullFile(content) == [st |-> "full", data |-> content]

\* FAISS.from_documents result: vectors and texts under the same positions
NewIndex(vs, ts) == [vecs |-> vs, texts |-> ts]
NoIndex == NewIndex(<<>>, <<>>)

\* ------------------------------------------------------------------ search
\* variant: the first stored position, whatever its distance
NearestIsFirstStored(vecs, q, S) ==
    CHOOSE i \in S : \A j \in S : i <= j

\* the nearest stored vector among the positions S, lowest position on ties
Nearest(vecs, q, S) ==
    CHOOSE i \in S : \A j \in S :
        \/ Distance(vecs[i], q) < Distance(vecs[j], q)
        \/ Distance(vecs[i], q) = Distance(vecs[j], q) /\ i <= j

RECURSIVE TopK(_, _, _, _)
TopK(vecs, q, S, k) ==
    IF k = 0 \/ S = {} THEN <<>>
    ELSE LET b == Nearest(vecs, q, S)
         IN  <<b>> \o TopK(vecs, q, S \ {b}, k - 1)

\* index.search(vector, k): positions of the k nearest vectors, nearest first,
\* fewer when the index holds fewer (faiss pads with -1, which is skipped)
FaissSearch(vecs, q, k) == TopK(vecs, q, DOMAIN vecs, k)

\* the search asserts that the query has the dimension of the index
DimensionOk(ix, q) == \A i \in DOMAIN ix.vecs : Len(ix.vecs[i]) = Len(q)

\* index_to_docstore_id[i] raises KeyError for a position the docstore lacks
DocstoreOk(ix, hits) == \A j \in DOMAIN hits : hits[j] \in DOMAIN ix.texts

NewDocument(i, text) == [id |-> i, page_content |-> text]

\* similarity_search(query, k=3) of the retriever
SimilaritySearch(ix, q, k) ==
    LET hits == FaissSearch(ix.vecs, q, k)
    IN  [j \in DOMAIN hits |-> NewDocument(hits[j], ix.texts[hits[j]])]

\* ------------------------------------------------------------------ prompt
RECURSIVE JoinNoSeparator(_)
\* variant: the texts run together, no separator between them
JoinNoSeparator(ds) ==
    IF ds = <<>> THEN <<>>
    ELSE <<ds[1].page_content>> \o JoinNoSeparator(Tail(ds))

RECURSIVE JoinDocs(_)
\* the "stuff" chain: "\n\n".join(page_content of every document)
JoinDocs(ds) ==
    IF ds = <<>> THEN <<>>
    ELSE IF Len(ds) = 1 THEN <<ds[1].page_content>>
    ELSE <<ds[1].page_content, "\n\n">> \o JoinDocs(Tail(ds))

\* variant: the context block and the question ahead of the instructions
PromptFormatContextFirst(context, question) ==
    <<"Human:", "<context>">> \o context \o
    <<"</context>", "Question:", question,
      "Use the following pieces of context",
      "summarize with at least 250 words",
      "If you don't know the answer, don't try to make up an answer",
      "Assistant:">>

\* prompt_template, one element per piece of text
PromptFormat(context, question) ==
    <<"Human:", "Use the following pieces of context",
      "summarize with at least 250 words",
      "If you don't know the answer, don't try to make up an answer",
      "<context>">> \o context \o
    <<"</context>", "Question:", question, "Assistant:">>

\* ------------------------------------------------------------------- state
VARIABLES
    disk,       \* the folder "faiss_index": [faiss |-> file, pkl |-> file]
    pc,         \* where each session's run of main() stands
    docs,       \* Store: the chunks get_documents() returned
    vectors,    \* Store: the embeddings computed so far by from_documents
    clash,      \* Store: another writer had the same file open meanwhile
    query,      \* Send: user_question
    index,      \* the in-memory FAISS object (built, or loaded)
    retrieved,  \* Send: the documents the retriever returned
    prompt,     \* Send: the prompt handed to the llm
    answer,     \* Send: the dict qa(...) returned
    returned,   \* Send: the value get_response_llm returned
    page        \* what the session's page shows

vars == <<disk, pc, docs, vectors, clash, query, index, retrieved, prompt,
          answer, returned, page>>

Blank == [kind |-> "blank", body |-> ""]
EmptyDict == [k \in {} |-> ""]

\* the text the llm generates
Replies == {"generated text"}

\* what "faiss_index" may hold before the first run
CompleteIndexes == {NewIndex([i \in 1..n |-> Embedding(ChunkText(i))], Corpus(n)) : n \in 1..MaxChunks}
LegacyIndexes == {NewIndex(LegacyVectors(n), Corpus(n)) : n \in 1..MaxChunks}
SavedFolder(ix) == [faiss |-> FullFile(ix.vecs), pkl |-> FullFile(ix.texts)]
InitialFolders ==
    {[faiss |-> NoFile, pkl |-> NoFile], [faiss |-> PartialFile, pkl |-> PartialFile]}
    \cup {SavedFolder(ix) : ix \in CompleteIndexes \cup LegacyIndexes}

Init ==
    /\ disk \in InitialFolders
    /\ pc = [s \in Sessions |-> "main"]
    /\ docs = [s \in Sessions |-> <<>>]
    /\ vectors = [s \in Sessions |-> <<>>]
    /\ clash = [s \in Sessions |-> FALSE]
    /\ query = [s \in Sessions |-> ""]
    /\ index = [s \in Sessions |-> NoIndex]
    /\ retrieved = [s \in Sessions |-> <<>>]
    /\ prompt = [s \in Sessions |-> <<>>]
    /\ answer = [s \in Sessions |-> EmptyDict]
    /\ returned = [s \in Sessions |-> EmptyDict]
    /\ page = [s \in Sessions |-> Blank]

\* an uncaught exception ends the run: Streamlit shows it on the page, and
\* the locals of main() and of the functions it was in are gone
Raise(s, state, reason) ==
    /\ pc' = [pc EXCEPT ![s] = state]
    /\ page' = [page EXCEPT ![s] = [kind |-> "error", body |-> reason]]
    /\ docs' = [docs EXCEPT ![s] = <<>>]
    /\ vectors' = [vectors EXCEPT ![s] = <<>>]
    /\ query' = [query EXCEPT ![s] = ""]
    /\ index' = [index EXCEPT ![s] = NoIndex]
    /\ retrieved' = [retrieved EXCEPT ![s] = <<>>]
    /\ prompt' = [prompt EXCEPT ![s] = <<>>]

\* ------------------------------------------------------------ "Store Vector"
\* st.button("Store Vector") pressed: docs = get_documents()
ClickStore(s) ==
    /\ pc[s] = "main"
    /\ \E c \in Corpora : docs' = [docs EXCEPT ![s] = c]
    /\ pc' = [pc EXCEPT ![s] = "from_documents"]
    /\ UNCHANGED <<disk, vectors, clash, query, index, retrieved, prompt,
                   answer, returned, page>>

\* from_documents -> embed_documents: one Bedrock call per chunk
EmbedChunk(s) ==
    /\ pc[s] = "from_documents"
    /\ Len(vectors[s]) < Len(docs[s])
    /\ vectors' = [vectors EXCEPT
                     ![s] = Append(@, Embedding(docs[s][Len(@) + 1]))]
    /\ UNCHANGED <<disk, pc, docs, clash, query, index, retrieved, prompt,
                   answer, returned, page>>

\* variant: the failing build saves the vectors it has so far
EmbedFailSavesPartial(s) ==
    /\ pc[s] = "from_documents"
    /\ Len(vectors[s]) < Len(docs[s])
    /\ disk' = [disk EXCEPT !.faiss = FullFile(vectors[s])]
    /\ Raise(s, "store_failed", "EmbeddingError")
    /\ UNCHANGED <<clash, answer, returned>>

\* a Bedrock call raises: the exception leaves get_vector_store before
\* save_local, the vectors computed so far are dropped with the frame
EmbedFail(s) ==
    /\ pc[s] = "from_documents"
    /\ Len(vectors[s]) < Len(docs[s])
    /\ Raise(s, "store_failed", "EmbeddingError")
    /\ UNCHANGED <<disk, clash, answer, returned>>

\* every chunk embedded: the FAISS object is built; with no chunk at all
\* from_documents raises on embeddings[0]
BuildIndex(s) ==
    /\ pc[s] = "from_documents"
    /\ Len(vectors[s]) = Len(docs[s])
    /\ IF docs[s] = <<>>
       THEN Raise(s, "store_failed", "IndexError")
       ELSE /\ index' = [index EXCEPT ![s] = NewIndex(vectors[s], docs[s])]
            /\ pc' = [pc EXCEPT ![s] = "save_local"]
            /\ UNCHANGED <<docs, vectors, query, retrieved, prompt, page>>
    /\ UNCHANGED <<disk, clash, answer, returned>>

\* sessions that have the named file of the folder open for writing
Writing(f) == {t \in Sessions : pc[t] = (IF f = "faiss" THEN "write_faiss" ELSE "write_pkl")}

\* opening a file for writing truncates it in place
OpenForWrite(s, f, next) ==
    /\ disk' = [disk EXCEPT ![f] = PartialFile]
    /\ clash' = [t \in Sessions |->
                   IF t = s THEN Writing(f) # {}
                   ELSE IF t \in Writing(f) THEN TRUE ELSE clash[t]]
    /\ pc' = [pc EXCEPT ![s] = next]

\* the content a finished write leaves: the writer's own, unless another
\* writer had the file open meanwhile, when the bytes of both may be mixed
Written(content, contended) ==
    IF contended THEN {FullFile(content), PartialFile} ELSE {FullFile(content)}

CloseAfterWrite(s, f, content, next) ==
    /\ \E file \in Written(content, clash[s]) : disk' = [disk EXCEPT ![f] = file]
    /\ clash' = [clash EXCEPT ![s] = FALSE]
    /\ pc' = [pc EXCEPT ![s] = next]

\* save_local("faiss_index"): faiss.write_index(index, "index.faiss") ...
OpenFaiss(s) ==
    /\ pc[s] = "save_local"
    /\ OpenForWrite(s, "faiss", "write_faiss")
    /\ UNCHANGED <<docs, vectors, query, index, retrieved, prompt, answer,
                   returned, page>>

WriteFaiss(s) ==
    /\ pc[s] = "write_faiss"
    /\ CloseAfterWrite(s, "faiss", index[s].vecs, "save_pkl")
    /\ UNCHANGED <<docs, vectors, query, index, retrieved, prompt, answer,
                   returned, page>>

\* ... then pickle.dump((docstore, index_to_docstore_id), "index.pkl")
OpenPkl(s) ==
    /\ pc[s] = "save_pkl"
    /\ OpenForWrite(s, "pkl", "write_pkl")
    /\ UNCHANGED <<docs, vectors, query, index, retrieved, prompt, answer,
                   returned, page>>

WritePkl(s) ==
    /\ pc[s] = "write_pkl"
    /\ CloseAfterWrite(s, "pkl", index[s].texts, "saved")
    /\ UNCHANGED <<docs, vectors, query, index, retrieved, prompt, answer,
                   returned, page>>

\* st.success("Vector store created successfully!"); the run is over
StSuccess(s) ==
    /\ pc[s] = "saved"
    /\ page' = [page EXCEPT ![s] = [kind |-> "success", body |-> "Vector store created successfully!"]]
    /\ pc' = [pc EXCEPT ![s] = "store_done"]
    /\ docs' = [docs EXCEPT ![s] = <<>>]
    /\ vectors' = [vectors EXCEPT ![s] = <<>>]
    /\ index' = [index EXCEPT ![s] = NoIndex]
    /\ UNCHANGED <<disk, clash, query, retrieved, prompt, answer, returned>>

\* -------------------------------------------------------------------- "Send"
\* st.button("Send") pressed with user_question in the text input
ClickSend(s) ==
    /\ pc[s] = "main"
    /\ \E q \in Queries : query' = [query EXCEPT ![s] = q]
    /\ pc' = [pc EXCEPT ![s] = "load_faiss"]
    /\ UNCHANGED <<disk, docs, vectors, clash, index, retrieved, prompt,
                   answer, returned, page>>

\* a file can be read back when it is there and whole
Readable(file) == file.st = "full"

\* FAISS.load_local: faiss.read_index("faiss_index/index.faiss") ...
ReadFaiss(s) ==
    /\ pc[s] = "load_faiss"
    /\ IF Readable(disk.faiss)
       THEN /\ index' = [index EXCEPT ![s] = NewIndex(disk.faiss.data, <<>>)]
            /\ pc' = [pc EXCEPT ![s] = "load_pkl"]
            /\ UNCHANGED <<docs, vectors, query, retrieved, prompt, page>>
       ELSE Raise(s, "load_failed", "RuntimeError")
    /\ UNCHANGED <<disk, clash, answer, returned>>

\* ... then pickle.load of "faiss_index/index.pkl"; the embeddings object is
\* stored as given, its dimension is not compared with the vectors read.
\* get_llm() follows and get_response_llm is entered.
ReadPkl(s) ==
    /\ pc[s] = "load_pkl"
    /\ IF Readable(disk.pkl)
       THEN /\ index' = [index EXCEPT ![s] = NewIndex(@.vecs, disk.pkl.data)]
            /\ pc' = [pc EXCEPT ![s] = "Idle"]
            /\ UNCHANGED <<docs, vectors, query, retrieved, prompt, page>>
       ELSE Raise(s, "load_failed", "UnpicklingError")
    /\ UNCHANGED <<disk, clash, answer, returned>>

\* variant: the chain goes to the llm without retrieving
FromChainTypeSkipsRetrieval(s) ==
    /\ pc[s] = "Idle"
    /\ pc' = [pc EXCEPT ![s] = "Generating"]
    /\ UNCHANGED <<disk, docs, vectors, clash, query, index, retrieved,
                   prompt, answer, returned, page>>

\* qa = RetrievalQA.from_chain_type(...); qa({"query": query}) starts
FromChainType(s) ==
    /\ pc[s] = "Idle"
    /\ pc' = [pc EXCEPT ![s] = "Retrieving"]
    /\ UNCHANGED <<disk, docs, vectors, clash, query, index, retrieved,
                   prompt, answer, returned, page>>

\* the exception the retriever raises on this index, "" when it returns
SearchError(ix, q, k) ==
    IF ~DimensionOk(ix, q) THEN "AssertionError"
    ELSE IF ~DocstoreOk(ix, FaissSearch(ix.vecs, q, k)) THEN "KeyError"
    ELSE ""

\* variant: the question is a value all sessions share, the last one typed
RetrieveSharedQuestion(s) ==
    /\ pc[s] = "Retrieving"
    /\ LET last == CHOOSE t \in Sessions :
                      query[t] # "" /\ \A u \in Sessions : u > t => query[u] = ""
           q == Embedding(query[last])
           err == SearchError(index[s], q, K)
       IN  IF err = ""
           THEN /\ retrieved' = [retrieved EXCEPT ![s] = SimilaritySearch(index[s], q, K)]
                /\ pc' = [pc EXCEPT ![s] = "Assembling"]
                /\ UNCHANGED <<docs, vectors, query, index, prompt, page>>
           ELSE Raise(s, "Failed", err)
    /\ UNCHANGED <<disk, clash, answer, returned>>

\* the retriever: embed the query, search the index for the k = 3 nearest
Retrieve(s) ==
    /\ pc[s] = "Retrieving"
    /\ LET q == Embedding(query[s])
           err == SearchError(index[s], q, K)
       IN  IF err = ""
           THEN /\ retrieved' = [retrieved EXCEPT ![s] = SimilaritySearch(index[s], q, K)]
                /\ pc' = [pc EXCEPT ![s] = "Assembling"]
                /\ UNCHANGED <<docs, vectors, query, index, prompt, page>>
           ELSE Raise(s, "Failed", err)
    /\ UNCHANGED <<disk, clash, answer, returned>>

\* the Bedrock call that embeds the query raises
RetrieveEmbedFail(s) ==
    /\ pc[s] = "Retrieving"
    /\ Raise(s, "Failed", "EmbeddingError")
    /\ UNCHANGED <<disk, clash, answer, returned>>

\* the "stuff" chain fills PROMPT with the joined documents and the question
Assemble(s) ==
    /\ pc[s] = "Assembling"
    /\ prompt' = [prompt EXCEPT ![s] = PromptFormat(JoinDocs(retrieved[s]), query[s])]
    /\ pc' = [pc EXCEPT ![s] = "Generating"]
    /\ UNCHANGED <<disk, docs, vectors, clash, query, index, retrieved,
                   answer, returned, page>>

\* the dict qa(...) returns with return_source_documents=True
QaResult(q, text, sources) ==
    [query |-> q, result |-> text, source_documents |-> sources]

\* return answer["result"]
ReturnValue(ans) == [k \in {"result"} |-> ans[k]]

\* the llm generates; qa returns; get_response_llm returns
Generate(s) ==
    /\ pc[s] = "Generating"
    /\ \E text \in Replies :
          /\ answer' = [answer EXCEPT ![s] = QaResult(query[s], text, retrieved[s])]
          /\ returned' = [returned EXCEPT ![s] = ReturnValue(QaResult(query[s], text, retrieved[s]))]
    /\ pc' = [pc EXCEPT ![s] = "Done"]
    /\ UNCHANGED <<disk, docs, vectors, clash, query, index, retrieved,
                   prompt, page>>

\* variant: the llm error is caught and an empty text is returned
GenerateFailSwallowed(s) ==
    /\ pc[s] = "Generating"
    /\ answer' = [answer EXCEPT ![s] = QaResult(query[s], "", retrieved[s])]
    /\ returned' = [returned EXCEPT ![s] = ReturnValue(QaResult(query[s], "", retrieved[s]))]
    /\ pc' = [pc EXCEPT ![s] = "Done"]
    /\ UNCHANGED <<disk, docs, vectors, clash, query, index, retrieved,
                   prompt, page>>

\* the Bedrock call of the llm raises
GenerateFail(s) ==
    /\ pc[s] = "Generating"
    /\ Raise(s, "Failed", "GenerationError")
    /\ UNCHANGED <<disk, clash, answer, returned>>

\* st.write(<the returned value>)
StWrite(s) ==
    /\ pc[s] = "Done"
    /\ page[s] = Blank
    /\ page' = [page EXCEPT ![s] = [kind |-> "answer", body |-> returned[s].result]]
    /\ UNCHANGED <<disk, pc, docs, vectors, clash, query, index, retrieved,
                   prompt, answer, returned>>

\* ------------------------------------------------------------ specification
StoreStep(s) ==
    \/ ClickStore(s)
    \/ EmbedChunk(s)
    \/ EmbedFail(s)
    \/ BuildIndex(s)
    \/ OpenFaiss(s)
    \/ WriteFaiss(s)
    \/ OpenPkl(s)
    \/ WritePkl(s)
    \/ StSuccess(s)

SendStep(s) ==
    \/ ClickSend(s)
    \/ ReadFaiss(s)
    \/ ReadPkl(s)
    \/ FromChainType(s)
    \/ Retrieve(s)
    \/ RetrieveEmbedFail(s)
    \/ Assemble(s)
    \/ Generate(s)
    \/ GenerateFail(s)
    \/ StWrite(s)

Next == \E s \in Sessions : StoreStep(s) \/ SendStep(s)

Spec == Init /\ [][Next]_vars

\* only "Store Vector" is ever pressed: concurrent rebuilds of the folder
NextStore == \E s \in Sessions : StoreStep(s)

SpecStore == Init /\ [][NextStore]_vars

\* Only "Send" is ever pressed.  The folder is any one that Spec reaches while
\* rebuilds are under way and stays as it is, as when a rebuild stands between
\* two of its writes: files of different builds, and files being written.
FaissFiles == {NoFile, PartialFile} \cup {FullFile(ix.vecs) : ix \in CompleteIndexes \cup LegacyIndexes}
PklFiles == {NoFile, PartialFile} \cup {FullFile(ix.texts) : ix \in CompleteIndexes}
ReachableFolders ==
    {f \in [faiss : FaissFiles, pkl : PklFiles] :
        /\ f.faiss = NoFile => f.pkl = NoFile
        /\ \A ix \in LegacyIndexes :
              f.faiss = FullFile(ix.vecs) => f.pkl = FullFile(ix.texts)}

NextQuery == \E s \in Sessions : SendStep(s)

SpecQuery ==
    /\ disk \in ReachableFolders
    /\ pc = [s \in Sessions |-> "main"]
    /\ docs = [s \in Sessions |-> <<>>]
    /\ vectors = [s \in Sessions |-> <<>>]
    /\ clash = [s \in Sessions |-> FALSE]
    /\ query = [s \in Sessions |-> ""]
    /\ index = [s \in Sessions |-> NoIndex]
    /\ retrieved = [s \in Sessions |-> <<>>]
    /\ prompt = [s \in Sessions |-> <<>>]
    /\ answer = [s \in Sessions |-> EmptyDict]
    /\ returned = [s \in Sessions |-> EmptyDict]
    /\ page = [s \in Sessions |-> Blank]
    /\ [][NextQuery]_vars

\* ===================================================================== claims
\* the states of a get_response_llm call
CallStates == {"Idle", "Retrieving", "Assembling", "Generating", "Done", "Failed"}
\* positions of main() at which it holds the index FAISS.load_local returned
Loaded == {"Idle", "Retrieving", "Assembling", "Generating", "Done"}
\* positions at which the retriever has returned
Retrieved == {"Assembling", "Generating", "Done"}
\* positions at which the prompt has been handed to the llm
Prompted == {"Generating", "Done"}

Range(f) == {f[i] : i \in DOMAIN f}
FirstAt(p, tok) == CHOOSE i \in DOMAIN p : p[i] = tok /\ \A j \in 1..(i - 1) : p[j] # tok
QueryVector(s) == Embedding(query[s])

\* C1: a "Send" run that loads the folder while a "Store Vector" run saves it
\* gets a whole index: the vectors and the texts of one and the same build.
C1_LoadSeesWholeIndex ==
    \A s \in Sessions :
        pc[s] \in Loaded => index[s] \in CompleteIndexes \cup LegacyIndexes

\* C2, as claimed: a get_response_llm call steps Idle, Retrieving, Assembling,
\* Generating, Done in that order, Failed is entered only from Idle,
\* Retrieving or Assembling, Done and Failed are never left, and Generating is
\* entered only with the retrieval result of the call in hand.
CallStep(s, failFrom) ==
    /\ pc[s] \in {"Done", "Failed"} => pc'[s] = pc[s]
    /\ pc[s] \in CallStates /\ pc'[s] # pc[s] =>
          \/ <<pc[s], pc'[s]>> \in {<<"Idle", "Retrieving">>, <<"Retrieving", "Assembling">>,
                                    <<"Assembling", "Generating">>, <<"Generating", "Done">>}
          \/ pc'[s] = "Failed" /\ pc[s] \in failFrom
    /\ pc'[s] \in CallStates /\ pc[s] \notin CallStates =>
          pc'[s] = "Idle" /\ retrieved'[s] = <<>> /\ prompt'[s] = <<>>
    /\ pc'[s] = "Generating" =>
          /\ retrieved'[s] = SimilaritySearch(index[s], QueryVector(s), K)
          /\ retrieved'[s] # <<>>

C2_FailedOnlyBeforeGenerating ==
    [][\A s \in Sessions : CallStep(s, {"Idle", "Retrieving", "Assembling"})]_vars

\* C2, amended: the same, with Failed entered only from Retrieving (the query
\* embedding or the search raises) and from Generating (the llm call raises).
C2_CallStateMachine ==
    [][\A s \in Sessions : CallStep(s, {"Retrieving", "Generating"})]_vars

C2_Witness ==
    \E s, t \in Sessions :
        /\ pc[s] = "Done"
        /\ pc[t] = "Failed" /\ page[t].body = "GenerationError"

\* C3: a "Send" run either writes the whole generated text, after load,
\* retrieval, assembly and generation all succeeded, or ends in the error of its
\* first failing step with no answer written; no error becomes an answer.
Errors == {"RuntimeError", "UnpicklingError", "EmbeddingError", "AssertionError",
           "KeyError", "GenerationError"}

C3_NoPartialAnswer ==
    \A s \in Sessions :
        /\ page[s].kind \in {"blank", "answer", "error"}
        /\ page[s].kind = "answer" =>
              /\ pc[s] = "Done"
              /\ page[s].body \in Replies
              /\ page[s].body = answer[s].result
              /\ retrieved[s] = SimilaritySearch(index[s], QueryVector(s), K)
              /\ prompt[s] = PromptFormat(JoinDocs(retrieved[s]), query[s])
        /\ pc[s] \in {"load_failed", "Failed"} <=> page[s].kind = "error"
        /\ page[s].kind = "error" =>
              /\ page[s].body \in Errors
              /\ DOMAIN answer[s] = {}
              /\ DOMAIN returned[s] = {}
        /\ pc[s] = "Done" => answer[s].result \in Replies

C3_Witness ==
    \E s, t \in Sessions :
        /\ page[s].kind = "answer"
        /\ page[t] = [kind |-> "error", body |-> "GenerationError"]

\* C4: the value get_response_llm returns carries the generated text and the
\* documents that were retrieved and put into the prompt.
C4_ReturnCarriesSources ==
    \A s \in Sessions :
        pc[s] = "Done" =>
            /\ "result" \in DOMAIN returned[s]
            /\ "source_documents" \in DOMAIN returned[s]
            /\ returned[s]["source_documents"] = retrieved[s]

\* C5: load_local returns no index when the folder is missing, corrupted or
\* holds vectors of another dimension than the embedding model's.
C5_LoadRejectsBadFolder ==
    \A s \in Sessions :
        pc[s] \in Loaded =>
            /\ index[s].vecs # <<>>
            /\ \A i \in DOMAIN index[s].vecs : Len(index[s].vecs[i]) = EmbedDim

\* C6: when an embedding call fails during the build, the step leaves the
\* folder as it was, the run ends there, it shows no success message, and
\* only runs whose build succeeded ever write to the folder.
Saving == {"save_local", "write_faiss", "save_pkl", "write_pkl"}

C6_BuildAllOrNothing ==
    [][/\ \A s \in Sessions :
             /\ pc[s] = "store_failed" => pc'[s] = "store_failed" /\ page'[s] = page[s]
             /\ pc'[s] = "store_failed" /\ pc[s] # "store_failed" =>
                   /\ pc[s] = "from_documents"
                   /\ disk' = disk
                   /\ vectors'[s] = <<>> /\ index'[s] = NoIndex
                   /\ page'[s].kind = "error"
             /\ page'[s].kind = "success" => pc'[s] = "store_done"
       /\ disk' # disk =>
             \E s \in Sessions :
                 /\ pc[s] \in Saving /\ pc'[s] # pc[s]
                 /\ index[s] = NewIndex([i \in DOMAIN docs[s] |-> Embedding(docs[s][i])], docs[s])
      ]_vars

C6_Witness ==
    \E s \in Sessions :
        /\ pc[s] = "store_failed" /\ page[s].body = "EmbeddingError"
        /\ disk \in {SavedFolder(ix) : ix \in CompleteIndexes}
        /\ \E t \in Sessions : pc[t] = "store_done"

\* C7: the retriever returns min(K, number of vectors in the index) documents,
\* the nearest ones, nearest first.
C7_TopKOrdered ==
    \A s \in Sessions :
        pc[s] \in Retrieved =>
            LET r == retrieved[s]
                v == index[s].vecs
                d(i) == Distance(v[i], QueryVector(s))
            IN  /\ Len(r) = Min(K, Len(v))
                /\ Len(r) <= K
                /\ \A j \in DOMAIN r :
                      /\ r[j].id \in DOMAIN v
                      /\ r[j].page_content = index[s].texts[r[j].id]
                /\ \A i, j \in DOMAIN r : i < j => r[i].id # r[j].id /\ d(r[i].id) <= d(r[j].id)
                /\ \A j \in DOMAIN r : \A i \in DOMAIN v :
                      i \notin {r[m].id : m \in DOMAIN r} => d(r[j].id) <= d(i)

C7_Witness ==
    \E s \in Sessions :
        /\ pc[s] \in Retrieved
        /\ Len(index[s].vecs) > K /\ Len(retrieved[s]) = K
        /\ retrieved[s][1].id # 1
        /\ \E t \in Sessions : pc[t] \in Retrieved /\ query[t] # query[s]

\* C8: "Send" runs change neither the folder nor each other's data, and each
\* gets the index, the documents and the prompt that the folder and its own
\* question determine, whatever the other runs do.
FolderIndex == NewIndex(disk.faiss.data, disk.pkl.data)
Alone(s) == SimilaritySearch(FolderIndex, QueryVector(s), K)

C8_QueriesIndependent ==
    /\ [][disk' = disk]_vars
    /\ [](\A s \in Sessions :
            /\ pc[s] \in Loaded => index[s] = FolderIndex
            /\ pc[s] \in Retrieved =>
                  LET alone == Alone(s)
                  IN  /\ retrieved[s] = alone
                      /\ pc[s] \in Prompted => prompt[s] = PromptFormat(JoinDocs(alone), query[s])
                      /\ pc[s] = "Done" => answer[s] = QaResult(query[s], answer[s].result, alone))

C8_Witness ==
    \E s, t \in Sessions :
        /\ pc[s] = "Done" /\ pc[t] = "Done"
        /\ query[s] # query[t]
        /\ retrieved[s] # retrieved[t]

\* C9: between <context> and </context> the prompt handed to the llm holds the
\* texts of the retrieved documents, whole, in retrieval order, "\n\n" between
\* them, and nothing else; the documents are those retrieved for the question
\* the prompt asks.
ContextBlock(p) ==
    SubSeq(p, FirstAt(p, "<context>") + 1, FirstAt(p, "</context>") - 1)

C9_PromptGrounded ==
    \A s \in Sessions :
        pc[s] \in Prompted =>
            LET r == retrieved[s]
                c == ContextBlock(prompt[s])
            IN  /\ "<context>" \in Range(prompt[s]) /\ "</context>" \in Range(prompt[s])
                /\ Len(c) = IF r = <<>> THEN 0 ELSE 2 * Len(r) - 1
                /\ \A j \in DOMAIN r : c[2 * j - 1] = r[j].page_content
                /\ \A j \in 1..(Len(r) - 1) : c[2 * j] = "\n\n"
                /\ \A t \in Range(index[s].texts) :
                      t \in Range(prompt[s]) => \E j \in DOMAIN r : r[j].page_content = t
                /\ r = SimilaritySearch(index[s], QueryVector(s), K)
                /\ prompt[s][FirstAt(prompt[s], "Question:") + 1] = query[s]

C9_Witness ==
    \E s \in Sessions :
        /\ pc[s] = "Generating"
        /\ Len(retrieved[s]) = K
        /\ Len(index[s].texts) > K

\* C10, as claimed: the prompt holds the context block, then the question,
\* then the instructions (minimum length, no made-up answer).
MinLength == "summarize with at least 250 words"
NoMadeUp == "If you don't know the answer, don't try to make up an answer"

C10_InstructionsLast ==
    \A s \in Sessions :
        pc[s] \in Prompted =>
            LET p == prompt[s]
            IN  /\ FirstAt(p, "<context>") < FirstAt(p, "</context>")
                /\ FirstAt(p, "</context>") < FirstAt(p, "Question:")
                /\ FirstAt(p, "Question:") < FirstAt(p, MinLength)
                /\ FirstAt(p, "Question:") < FirstAt(p, NoMadeUp)

\* C10, amended: the prompt holds the instructions, then the context block,
\* then the question, then the cue "Assistant:", for every input.
C10_InstructionsFirst ==
    \A s \in Sessions :
        pc[s] \in Prompted =>
            LET p == prompt[s]
            IN  /\ {MinLength, NoMadeUp, "<context>", "</context>", "Question:", "Assistant:"}
                      \subseteq Range(p)
                /\ FirstAt(p, MinLength) < FirstAt(p, NoMadeUp)
                /\ FirstAt(p, NoMadeUp) < FirstAt(p, "<context>")
                /\ FirstAt(p, "<context>") < FirstAt(p, "</context>")
                /\ FirstAt(p, "</context>") + 1 = FirstAt(p, "Question:")
                /\ p[FirstAt(p, "Question:") + 1] = query[s]
                /\ FirstAt(p, "Assistant:") = Len(p)

C10_Witness ==
    \E s \in Sessions :
        /\ pc[s] = "Generating"
        /\ Len(retrieved[s]) > 1
        /\ query[s] \in Queries

====
